---- MODULE Spec2Model ----
(***************************************************************************)
(* Agent lifecycle engine of the oken runner: the in-memory agent registry *)
(* with its idle sweep (agent_registry.py), the deploy / invoke / stop     *)
(* handlers (server.py), the container driver as far as the handlers use   *)
(* it (docker_manager.py) and the readiness polling of the proxy           *)
(* (proxy.py).                                                             *)
(*                                                                         *)
(* Scheduling.  The handlers and the sweep are coroutines of one event     *)
(* loop.  Every `await` is a scheduling point: the acquisition of the      *)
(* registry lock (`async with self._lock`), an HTTP round trip of the      *)
(* proxy, asyncio.sleep and the upload read.  The code between two awaits  *)
(* runs without interruption, so one action of this model is one lock      *)
(* section together with the synchronous code that follows it up to the    *)
(* next await.  The driver calls (build_image, start_container,            *)
(* stop_container, cleanup_image) are synchronous and therefore belong to  *)
(* the action of the code around them.                                     *)
(***************************************************************************)
EXTENDS Integers, Sequences, FiniteSets, TLC

(* ------------------------------ bounds --------------------------------- *)
\* wall-clock instants are 0..MaxTime
MaxTime == 2
\* deploy requests that pass validation, over the whole run
MaxDeploys == 2
\* Settings.health_check_timeout: readiness polls of one deploy
HealthCheckTimeout == 2

\* statements in the body of a class of an entrypoint file
MaxClassBody == 2

\* agent ids that requests name
AgentIds == {"a1"}
\* values of oken.toml's agent.warm_timeout
WarmTimeouts == {1}
\* deploy handlers and invoke handlers that may be in flight at once
Deployers == {"d1", "d2"}
Invokers == {"i1"}

(* --------------------------- value domains ----------------------------- *)
\* last_invoked = None
NoTime == -1
\* container_id = None
NoCid == 0
\* container_name = None
NoName == <<>>
\* error = None
NoError == "none"
NoAgent == "none"

\* what a step returned to its caller or wrote to the log
Event(op, agent_id, result) == [op |-> op, agent_id |-> agent_id, result |-> result]
NoEvent == Event("none", NoAgent, "none")

\* no function is being called on its own
NoCall == [fn |-> "none"]
NoRet == [kind |-> "none"]

ContainerName(agent_id) == <<"oken-", agent_id>>
ImageTag(agent_id) == <<"oken-agent:", agent_id>>

\* AgentRegistry._lock is not held
Free == "free"

\* the tasks followed statement by statement: the three handlers and the task
\* of the cleanup loop
Tasks == {"deploy", "invoke", "stop", "sweep"}

\* a handler waits for a request; the cleanup loop starts with its sleep
AtStart == [t \in Tasks |-> IF t = "sweep" THEN <<"sleep", "call">> ELSE <<"idle", "call">>]

VARIABLES
    registry,    \* AgentRegistry._agents: agent_id -> AgentState
    order,       \* iteration order of _agents (dict insertion order)
    containers,  \* runtime: agent_id -> id of the container named oken-<agent_id>
    images,      \* runtime: image tags that exist
    nextCid,     \* next container id the runtime hands out
    now,         \* datetime.now(UTC)
    deploys,     \* validated deploy requests so far
    dep,         \* deploy handlers: position and locals
    inv,         \* invoke handlers: position and locals
    sweepPc,     \* position of the sweep task
    sweepNow,    \* _cleanup_idle_agents: now
    sweepList,   \* _cleanup_idle_agents: agents_to_stop (the part still to do)
    event,       \* what the step just taken returned or logged (NoEvent: nothing)
    touched,     \* ids touched, found registered and running, since the
                 \* decision of the sweep pass that is committing
    call,        \* a function called on its own: its name and arguments
    ret,         \* what that call returned or raised
    lock,        \* AgentRegistry._lock: the task inside the section, or Free
    at,          \* statement by statement: the statement each task is at
    runningSince \* history: per id, the instant its entry became running
                 \* (NoTime: no entry, or not running)

vars == <<registry, order, containers, images, nextCid, now, deploys, dep, inv,
          sweepPc, sweepNow, sweepList, event, touched, call, ret, lock, at, runningSince>>

(* ----------------------------- AgentState ------------------------------ *)
AgentState(status, created_at, warm_timeout) ==
    [status |-> status, container_id |-> NoCid, container_name |-> NoName,
     created_at |-> created_at, last_invoked |-> NoTime, error |-> NoError,
     warm_timeout |-> warm_timeout]

Registered(agent_id) == agent_id \in DOMAIN registry

(* --------------------------- AgentRegistry ----------------------------- *)
\* register: self._agents[agent.agent_id] = agent
Register(reg, agent_id, agent) ==
    [x \in DOMAIN reg \cup {agent_id} |-> IF x = agent_id THEN agent ELSE reg[x]]

\* a faulty order: a key that is already present is listed once more
RegisterOrderAppends(ord, reg, agent_id) == Append(ord, agent_id)

\* dict order: a key that is already present keeps its place
RegisterOrder(ord, reg, agent_id) ==
    IF agent_id \in DOMAIN reg THEN ord ELSE Append(ord, agent_id)

\* a faulty touch: every entry gets the timestamp
TouchAll(reg, agent_id, t) ==
    IF agent_id \in DOMAIN reg
    THEN [x \in DOMAIN reg |-> [reg[x] EXCEPT !.last_invoked = t]]
    ELSE reg

\* touch: no-op when the id is absent
Touch(reg, agent_id, t) ==
    IF agent_id \in DOMAIN reg
    THEN [reg EXCEPT ![agent_id].last_invoked = t]
    ELSE reg

\* a faulty update_status: the error text is never written
UpdateStatusNoText(reg, agent_id, status, error) ==
    IF agent_id \in DOMAIN reg
    THEN [reg EXCEPT ![agent_id].status = status]
    ELSE reg

\* a faulty update_status: an entry set to error is dropped from the map
UpdateStatusDropsFailed(reg, agent_id, status, error) ==
    IF agent_id \in DOMAIN reg /\ status = "error"
    THEN [x \in DOMAIN reg \ {agent_id} |-> reg[x]]
    ELSE IF agent_id \in DOMAIN reg
    THEN [reg EXCEPT ![agent_id].status = status]
    ELSE reg

\* update_status: the error text is written only when one is given
UpdateStatus(reg, agent_id, status, error) ==
    IF agent_id \in DOMAIN reg
    THEN [reg EXCEPT ![agent_id].status = status,
                     ![agent_id].error = IF error # NoError THEN error ELSE @]
    ELSE reg

UpdateContainer(reg, agent_id, container_id, container_name) ==
    IF agent_id \in DOMAIN reg
    THEN [reg EXCEPT ![agent_id].container_id = container_id,
                     ![agent_id].container_name = container_name]
    ELSE reg

\* a faulty unregister: the entry is returned but not removed
UnregisterKeeps(reg, agent_id) == reg

\* unregister / _agents.pop(agent_id, None)
Unregister(reg, agent_id) ==
    [x \in DOMAIN reg \ {agent_id} |-> reg[x]]

UnregisterOrder(ord, agent_id) ==
    SelectSeq(ord, LAMBDA x : x # agent_id)

(* --------------------------- DockerManager ----------------------------- *)
\* a faulty stop_container: the container is left as it is
StopContainerKeeps(cs, container_id) == cs

\* stop_container: stop and remove the container with this id; NotFound is
\* swallowed
StopContainer(cs, container_id) ==
    [x \in DOMAIN cs |-> IF cs[x] = container_id THEN NoCid ELSE cs[x]]

\* start_container, first half: force-remove the container of the same name
RemoveExisting(cs, agent_id) ==
    [cs EXCEPT ![agent_id] = NoCid]

\* start_container, second half: containers.run succeeded with a fresh id
RunContainer(cs, agent_id, container_id) ==
    [cs EXCEPT ![agent_id] = container_id]

\* build_image succeeded: the tag exists
BuildImage(imgs, agent_id) == imgs \cup {ImageTag(agent_id)}

\* a faulty cleanup_image: the tag is left in place
CleanupImageKeeps(imgs, image_tag) == imgs

\* cleanup_image: force-remove the tag; a missing image is ignored
CleanupImage(imgs, image_tag) == imgs \ {image_tag}

(* ------------------------------- history ------------------------------- *)
\* runningSince after a step taken at instant t that leaves the registry as
\* reg2: an entry that is running keeps its instant, one that has just become
\* running gets t.  (Register always stores a fresh, non-running AgentState.)
Since(reg2, since, t) ==
    [a \in DOMAIN since |->
        IF a \in DOMAIN reg2 /\ reg2[a].status = "running"
        THEN IF since[a] # NoTime THEN since[a] ELSE t
        ELSE NoTime]

(* -------------------------------- Init --------------------------------- *)
DepIdle ==
    [pc |-> "idle", agent_id |-> NoAgent, created_at |-> NoTime,
     warm_timeout |-> 0, container_id |-> NoCid, polls |-> 0]

InvIdle == [pc |-> "idle", agent_id |-> NoAgent]

Init ==
    /\ registry = <<>>
    /\ order = <<>>
    /\ containers = [x \in AgentIds |-> NoCid]
    /\ images = {}
    /\ nextCid = 1
    /\ now = 0
    /\ deploys = 0
    /\ dep = [d \in Deployers |-> DepIdle]
    /\ inv = [i \in Invokers |-> InvIdle]
    /\ sweepPc = "sleep"
    /\ sweepNow = NoTime
    /\ sweepList = <<>>
    /\ event = NoEvent
    /\ touched = {}
    /\ call = NoCall
    /\ ret = NoRet
    /\ lock = Free
    /\ at = AtStart
    /\ runningSince = [x \in AgentIds |-> NoTime]

(* -------------------------------- clock -------------------------------- *)
Tick ==
    /\ now < MaxTime
    /\ now' = now + 1
    /\ event' = NoEvent
    /\ UNCHANGED <<runningSince, lock, at, call, ret, touched, registry, order, containers, images, nextCid, deploys, dep,
                   inv, sweepPc, sweepNow, sweepList>>

(* ------------------------------- deploy -------------------------------- *)
\* a faulty deploy: the entry is registered before the request is validated
DeployConfigErrorAfterRegister(d) ==
    /\ dep[d].pc = "idle"
    /\ \E a \in AgentIds :
          /\ registry' = Register(registry, a, AgentState("building", now, 1))
          /\ order' = RegisterOrder(order, registry, a)
    /\ event' = Event("deploy", NoAgent, "ConfigError")
    /\ UNCHANGED <<runningSince, lock, at, call, ret, touched, containers, images, nextCid, now, deploys,
                   dep, inv, sweepPc, sweepNow, sweepList>>

\* deploy, up to the call of registry.register: validation, extraction or
\* config parsing raises ConfigError
DeployConfigError(d) ==
    /\ dep[d].pc = "idle"
    /\ event' = Event("deploy", NoAgent, "ConfigError")
    /\ UNCHANGED <<runningSince, lock, at, call, ret, touched, registry, order, containers, images, nextCid, now, deploys,
                   dep, inv, sweepPc, sweepNow, sweepList>>

\* deploy, up to the call of registry.register: the AgentState is built
DeployBegin(d, agent_id, warm_timeout) ==
    /\ dep[d].pc = "idle"
    /\ deploys < MaxDeploys
    /\ deploys' = deploys + 1
    /\ dep' = [dep EXCEPT ![d] = [pc |-> "register", agent_id |-> agent_id,
                                  created_at |-> now, warm_timeout |-> warm_timeout,
                                  container_id |-> NoCid, polls |-> 0]]
    /\ event' = NoEvent
    /\ UNCHANGED <<runningSince, lock, at, call, ret, touched, registry, order, containers, images, nextCid, now, inv,
                   sweepPc, sweepNow, sweepList>>

\* registry.register, then docker.build_image and docker.start_container
\* (both synchronous) up to the next await
DeployRegister(d) ==
    /\ dep[d].pc = "register"
    /\ LET a == dep[d].agent_id
           agent == AgentState("building", dep[d].created_at, dep[d].warm_timeout)
       IN /\ registry' = Register(registry, a, agent)
          /\ order' = RegisterOrder(order, registry, a)
          /\ \/ \* build_image raises
                /\ dep' = [dep EXCEPT ![d].pc = "build_failed",
                                      ![d].created_at = NoTime]
                /\ UNCHANGED <<containers, images, nextCid>>
             \/ \* start_container raises after removing the old container
                /\ images' = BuildImage(images, a)
                /\ containers' = RemoveExisting(containers, a)
                /\ dep' = [dep EXCEPT ![d].pc = "start_failed",
                                      ![d].created_at = NoTime]
                /\ UNCHANGED nextCid
             \/ \* both succeed
                /\ images' = BuildImage(images, a)
                /\ containers' = RunContainer(RemoveExisting(containers, a), a, nextCid)
                /\ nextCid' = nextCid + 1
                /\ dep' = [dep EXCEPT ![d].pc = "update_container",
                                      ![d].created_at = NoTime,
                                      ![d].container_id = nextCid]
    /\ event' = NoEvent
    /\ runningSince' = Since(registry', runningSince, now)
    /\ UNCHANGED <<lock, at, call, ret, touched, now, deploys, inv, sweepPc, sweepNow, sweepList>>

\* except-branch of the build: update_status(error), re-raise
DeployBuildFailed(d) ==
    /\ dep[d].pc = "build_failed"
    /\ registry' = UpdateStatus(registry, dep[d].agent_id, "error", "build")
    /\ dep' = [dep EXCEPT ![d] = DepIdle]
    /\ event' = Event("deploy", dep[d].agent_id, "BuildError")
    /\ runningSince' = Since(registry', runningSince, now)
    /\ UNCHANGED <<lock, at, call, ret, touched, order, containers, images, nextCid, now, deploys, inv,
                   sweepPc, sweepNow, sweepList>>

\* except-branch of the start: update_status(error), cleanup_image, re-raise
DeployStartFailed(d) ==
    /\ dep[d].pc = "start_failed"
    /\ registry' = UpdateStatus(registry, dep[d].agent_id, "error", "start")
    /\ images' = CleanupImage(images, ImageTag(dep[d].agent_id))
    /\ dep' = [dep EXCEPT ![d] = DepIdle]
    /\ event' = Event("deploy", dep[d].agent_id, "ContainerError")
    /\ runningSince' = Since(registry', runningSince, now)
    /\ UNCHANGED <<lock, at, call, ret, touched, order, containers, nextCid, now, deploys, inv,
                   sweepPc, sweepNow, sweepList>>

\* registry.update_container, then wait_for_ready up to its first request
DeployUpdateContainer(d) ==
    /\ dep[d].pc = "update_container"
    /\ registry' = UpdateContainer(registry, dep[d].agent_id, dep[d].container_id,
                                   ContainerName(dep[d].agent_id))
    /\ dep' = [dep EXCEPT ![d].pc = "poll"]
    /\ event' = NoEvent
    /\ UNCHANGED <<runningSince, lock, at, call, ret, touched, order, containers, images, nextCid, now, deploys, inv,
                   sweepPc, sweepNow, sweepList>>

\* wait_for_ready: one health_check answer.  A 200 needs a container of that
\* name to answer; anything else counts as a failed poll.
DeployPoll(d) ==
    /\ dep[d].pc = "poll"
    /\ \E ok \in BOOLEAN :
          /\ ok => containers[dep[d].agent_id] # NoCid
          /\ dep' = [dep EXCEPT
                ![d].pc = IF ok THEN "mark_running"
                          ELSE IF dep[d].polls + 1 >= HealthCheckTimeout
                               THEN "not_ready" ELSE "poll",
                ![d].polls = IF ok \/ dep[d].polls + 1 >= HealthCheckTimeout
                             THEN 0 ELSE dep[d].polls + 1]
    /\ event' = NoEvent
    /\ UNCHANGED <<runningSince, lock, at, call, ret, touched, registry, order, containers, images, nextCid, now, deploys,
                   inv, sweepPc, sweepNow, sweepList>>

\* ready: update_status(running), return status running
DeployMarkRunning(d) ==
    /\ dep[d].pc = "mark_running"
    /\ registry' = UpdateStatus(registry, dep[d].agent_id, "running", NoError)
    /\ dep' = [dep EXCEPT ![d] = DepIdle]
    /\ event' = Event("deploy", dep[d].agent_id, "running")
    /\ runningSince' = Since(registry', runningSince, now)
    /\ UNCHANGED <<lock, at, call, ret, touched, order, containers, images, nextCid, now, deploys, inv,
                   sweepPc, sweepNow, sweepList>>

\* not ready: update_status(error), stop_container, return status error
DeployNotReady(d) ==
    /\ dep[d].pc = "not_ready"
    /\ registry' = UpdateStatus(registry, dep[d].agent_id, "error", "ready")
    /\ containers' = StopContainer(containers, dep[d].container_id)
    /\ dep' = [dep EXCEPT ![d] = DepIdle]
    /\ event' = Event("deploy", dep[d].agent_id, "error")
    /\ runningSince' = Since(registry', runningSince, now)
    /\ UNCHANGED <<lock, at, call, ret, touched, order, images, nextCid, now, deploys, inv,
                   sweepPc, sweepNow, sweepList>>

(* ------------------------------- invoke -------------------------------- *)
\* faulty precondition checks: container_name is not looked at
InvokeCheckIgnoresName(reg, agent_id) ==
    IF agent_id \notin DOMAIN reg THEN "AgentNotFound"
    ELSE IF reg[agent_id].status # "running" THEN "AgentNotRunning"
    ELSE "none"

\* what the precondition checks of invoke raise ("none": they pass)
InvokeCheck(reg, agent_id) ==
    IF agent_id \notin DOMAIN reg THEN "AgentNotFound"
    ELSE IF reg[agent_id].status # "running" THEN "AgentNotRunning"
    ELSE IF reg[agent_id].container_name = NoName THEN "AgentNotRunning"
    ELSE "none"

\* registry.get and the precondition checks
InvokeGet(i, agent_id) ==
    /\ inv[i].pc = "idle"
    /\ LET r == InvokeCheck(registry, agent_id)
       IN IF r = "none"
          THEN /\ inv' = [inv EXCEPT ![i] = [pc |-> "touch", agent_id |-> agent_id]]
               /\ event' = NoEvent
          ELSE /\ inv' = inv
               /\ event' = Event("invoke", agent_id, r)
    /\ UNCHANGED <<runningSince, lock, at, call, ret, touched, registry, order, containers, images, nextCid, now, deploys,
                   dep, sweepPc, sweepNow, sweepList>>

\* registry.touch, then proxy.invoke up to the HTTP request
InvokeTouch(i) ==
    /\ inv[i].pc = "touch"
    /\ registry' = Touch(registry, inv[i].agent_id, now)
    /\ inv' = [inv EXCEPT ![i].pc = "forwarding"]
    /\ event' = NoEvent
    /\ touched' = IF /\ sweepPc = "commit"
                     /\ Registered(inv[i].agent_id)
                     /\ registry[inv[i].agent_id].status = "running"
                  THEN touched \cup {inv[i].agent_id} ELSE touched
    /\ UNCHANGED <<runningSince, lock, at, call, ret, order, containers, images, nextCid, now, deploys, dep,
                   sweepPc, sweepNow, sweepList>>

\* the forwarded request returns: a reply of the replica, or InvokeError
InvokeReturn(i) ==
    /\ inv[i].pc = "forwarding"
    /\ \E r \in {"ok", "InvokeError"} :
          /\ r = "ok" => containers[inv[i].agent_id] # NoCid
          /\ event' = Event("invoke", inv[i].agent_id, r)
    /\ inv' = [inv EXCEPT ![i] = InvIdle]
    /\ UNCHANGED <<runningSince, lock, at, call, ret, touched, registry, order, containers, images, nextCid, now, deploys,
                   dep, sweepPc, sweepNow, sweepList>>

(* -------------------------------- stop --------------------------------- *)
\* a faulty stop: the entry is looked up with get and stays registered
StopKeepsEntry(agent_id) ==
    /\ IF Registered(agent_id)
       THEN /\ containers' =
                 IF registry[agent_id].container_id # NoCid
                 THEN StopContainer(containers, registry[agent_id].container_id)
                 ELSE containers
            /\ images' = CleanupImage(images, ImageTag(agent_id))
            /\ event' = Event("stop", agent_id, "stopped")
            /\ UNCHANGED <<registry, order>>
       ELSE /\ event' = Event("stop", agent_id, "AgentNotFound")
            /\ UNCHANGED <<registry, order, containers, images>>
    /\ runningSince' = Since(registry', runningSince, now)
    /\ UNCHANGED <<lock, at, call, ret, touched, nextCid, now, deploys, dep, inv, sweepPc, sweepNow, sweepList>>

\* stop: unregister, stop_container, cleanup_image (no await after the lock)
Stop(agent_id) ==
    /\ IF Registered(agent_id)
       THEN /\ registry' = Unregister(registry, agent_id)
            /\ order' = UnregisterOrder(order, agent_id)
            /\ containers' =
                 IF registry[agent_id].container_id # NoCid
                 THEN StopContainer(containers, registry[agent_id].container_id)
                 ELSE containers
            /\ images' = CleanupImage(images, ImageTag(agent_id))
            /\ event' = Event("stop", agent_id, "stopped")
       ELSE /\ event' = Event("stop", agent_id, "AgentNotFound")
            /\ UNCHANGED <<registry, order, containers, images>>
    /\ runningSince' = Since(registry', runningSince, now)
    /\ UNCHANGED <<lock, at, call, ret, touched, nextCid, now, deploys, dep, inv, sweepPc, sweepNow, sweepList>>

(* ------------------------------ idle sweep ----------------------------- *)
\* last_activity = agent.last_invoked or agent.created_at
LastActivity(agent) ==
    IF agent.last_invoked # NoTime THEN agent.last_invoked ELSE agent.created_at

\* a faulty idle test: >= instead of >
IsIdleAtTimeout(agent, t) ==
    /\ agent.status = "running"
    /\ t - LastActivity(agent) >= agent.warm_timeout

\* a faulty idle test: an agent that was never invoked is never idle
IsIdleOnceInvoked(agent, t) ==
    /\ agent.status = "running"
    /\ agent.last_invoked # NoTime
    /\ t - agent.last_invoked > agent.warm_timeout

\* the test of _cleanup_idle_agents on one entry
IsIdle(agent, t) ==
    /\ agent.status = "running"
    /\ t - LastActivity(agent) > agent.warm_timeout

RECURSIVE AgentsToStop(_, _, _)
AgentsToStop(ord, reg, t) ==
    IF ord = <<>> THEN <<>>
    ELSE LET a == Head(ord)
             rest == AgentsToStop(Tail(ord), reg, t)
         IN IF IsIdle(reg[a], t)
            THEN <<[agent_id |-> a, witness |-> reg[a].last_invoked]>> \o rest
            ELSE rest

\* _cleanup_loop: the sleep is over; now = datetime.now(UTC)
SweepWake ==
    /\ sweepPc = "sleep"
    /\ sweepPc' = "decide"
    /\ sweepNow' = now
    /\ event' = NoEvent
    /\ UNCHANGED <<runningSince, lock, at, call, ret, touched, registry, order, containers, images, nextCid, now,
                   deploys, dep, inv, sweepList>>

\* _cleanup_idle_agents: the locked loop that collects the candidates
SweepDecide ==
    /\ sweepPc = "decide"
    /\ LET todo == AgentsToStop(order, registry, sweepNow)
       IN /\ sweepList' = todo
          /\ sweepPc' = IF todo = <<>> THEN "sleep" ELSE "commit"
    /\ sweepNow' = NoTime
    /\ event' = NoEvent
    /\ touched' = {}
    /\ UNCHANGED <<runningSince, lock, at, call, ret, registry, order, containers, images, nextCid, now, deploys,
                   dep, inv>>

\* a faulty commit test: the witness is not compared
StillIdleUnchecked(agent, last_invoked_at_decision) == TRUE

\* the test of _stop_agent_if_still_idle under the lock
StillIdle(agent, last_invoked_at_decision) ==
    agent.last_invoked = last_invoked_at_decision

\* _stop_agent_if_still_idle for the next candidate
SweepCommit ==
    /\ sweepPc = "commit"
    /\ LET a == Head(sweepList).agent_id
           w == Head(sweepList).witness
       IN IF ~Registered(a)
          THEN /\ event' = Event("sweep", a, "gone")
               /\ UNCHANGED <<registry, order, containers>>
          ELSE IF ~StillIdle(registry[a], w)
          THEN /\ event' = Event("sweep", a, "skipped")
               /\ UNCHANGED <<registry, order, containers>>
          ELSE /\ registry' = Unregister(registry, a)
               /\ order' = UnregisterOrder(order, a)
               /\ containers' =
                    IF registry[a].container_id # NoCid
                    THEN StopContainer(containers, registry[a].container_id)
                    ELSE containers
               /\ event' = Event("sweep", a, "evicted")
    /\ sweepList' = Tail(sweepList)
    /\ sweepPc' = IF Tail(sweepList) = <<>> THEN "sleep" ELSE "commit"
    /\ runningSince' = Since(registry', runningSince, now)
    /\ UNCHANGED <<lock, at, call, ret, touched, images, nextCid, now, deploys, dep, inv, sweepNow>>

(* ------------------------------- system -------------------------------- *)
Next ==
    \/ Tick
    \/ \E d \in Deployers : DeployConfigError(d)
    \/ \E d \in Deployers, a \in AgentIds, w \in WarmTimeouts : DeployBegin(d, a, w)
    \/ \E d \in Deployers : DeployRegister(d)
    \/ \E d \in Deployers : DeployBuildFailed(d)
    \/ \E d \in Deployers : DeployStartFailed(d)
    \/ \E d \in Deployers : DeployUpdateContainer(d)
    \/ \E d \in Deployers : DeployPoll(d)
    \/ \E d \in Deployers : DeployMarkRunning(d)
    \/ \E d \in Deployers : DeployNotReady(d)
    \/ \E i \in Invokers, a \in AgentIds : InvokeGet(i, a)
    \/ \E i \in Invokers : InvokeTouch(i)
    \/ \E i \in Invokers : InvokeReturn(i)
    \/ \E a \in AgentIds : Stop(a)
    \/ SweepWake
    \/ SweepDecide
    \/ SweepCommit

Spec == Init /\ [][Next]_vars

\* the sweep task runs `while True: sleep; _cleanup_idle_agents()`: each of
\* its steps is eventually taken
FairSpec ==
    /\ Spec
    /\ WF_vars(SweepWake)
    /\ WF_vars(SweepDecide)
    /\ WF_vars(SweepCommit)

(* --------------------- runs without driver failures -------------------- *)
\* registry.register, then build_image and start_container, both succeeding
DeployRegisterStarted(d) ==
    /\ DeployRegister(d)
    /\ dep'[d].pc = "update_container"

\* the system when no call of the driver raises
DriverOkNext ==
    \/ Tick
    \/ \E d \in Deployers : DeployConfigError(d)
    \/ \E d \in Deployers, a \in AgentIds, w \in WarmTimeouts : DeployBegin(d, a, w)
    \/ \E d \in Deployers : DeployRegisterStarted(d)
    \/ \E d \in Deployers : DeployUpdateContainer(d)
    \/ \E d \in Deployers : DeployPoll(d)
    \/ \E d \in Deployers : DeployMarkRunning(d)
    \/ \E d \in Deployers : DeployNotReady(d)
    \/ \E i \in Invokers, a \in AgentIds : InvokeGet(i, a)
    \/ \E i \in Invokers : InvokeTouch(i)
    \/ \E i \in Invokers : InvokeReturn(i)
    \/ \E a \in AgentIds : Stop(a)
    \/ SweepWake
    \/ SweepDecide
    \/ SweepCommit

DriverOkSpec == Init /\ [][DriverOkNext]_vars

(* ------------------- the registry called directly ---------------------- *)
\* The methods of AgentRegistry called by arbitrary clients, as the registry
\* tests do, for several ids.  Each call is one lock section, so the
\* interleavings of concurrent calls are the sequences of these steps.
RegistryIds == {"a1", "a2"}

RegistryInit ==
    /\ registry = <<>>
    /\ order = <<>>
    /\ containers = [x \in RegistryIds |-> NoCid]
    /\ images = {}
    /\ nextCid = 1
    /\ now = 0
    /\ deploys = 0
    /\ dep = [d \in Deployers |-> DepIdle]
    /\ inv = [i \in Invokers |-> InvIdle]
    /\ sweepPc = "sleep"
    /\ sweepNow = NoTime
    /\ sweepList = <<>>
    /\ event = NoEvent
    /\ touched = {}
    /\ call = NoCall
    /\ ret = NoRet
    /\ lock = Free
    /\ at = AtStart
    /\ runningSince = <<>>

\* await registry.register(AgentState(agent_id=..., config=...))
CallRegister(agent_id, warm_timeout) ==
    /\ registry' = Register(registry, agent_id, AgentState("pending", now, warm_timeout))
    /\ order' = RegisterOrder(order, registry, agent_id)
    /\ event' = Event("register", agent_id, "ok")
    /\ UNCHANGED <<runningSince, lock, at, call, ret, touched, containers, images, nextCid, now, deploys, dep, inv,
                   sweepPc, sweepNow, sweepList>>

\* await registry.touch(agent_id)
CallTouch(agent_id) ==
    /\ registry' = Touch(registry, agent_id, now)
    /\ touched' = IF /\ sweepPc = "commit"
                     /\ Registered(agent_id)
                     /\ registry[agent_id].status = "running"
                  THEN touched \cup {agent_id} ELSE touched
    /\ event' = NoEvent
    /\ UNCHANGED <<runningSince, lock, at, call, ret, order, containers, images, nextCid, now, deploys, dep, inv,
                   sweepPc, sweepNow, sweepList>>

\* await registry.update_status(agent_id, status, error)
CallUpdateStatus(agent_id, status, error) ==
    /\ registry' = UpdateStatus(registry, agent_id, status, error)
    /\ event' = NoEvent
    /\ UNCHANGED <<runningSince, lock, at, call, ret, touched, order, containers, images, nextCid, now, deploys, dep,
                   inv, sweepPc, sweepNow, sweepList>>

\* await registry.update_container(agent_id, container_id, container_name)
CallUpdateContainer(agent_id, container_id) ==
    /\ registry' = UpdateContainer(registry, agent_id, container_id,
                                   ContainerName(agent_id))
    /\ event' = NoEvent
    /\ UNCHANGED <<runningSince, lock, at, call, ret, touched, order, containers, images, nextCid, now, deploys, dep,
                   inv, sweepPc, sweepNow, sweepList>>

\* await registry.unregister(agent_id)
CallUnregister(agent_id) ==
    /\ registry' = Unregister(registry, agent_id)
    /\ order' = UnregisterOrder(order, agent_id)
    /\ event' = NoEvent
    /\ UNCHANGED <<runningSince, lock, at, call, ret, touched, containers, images, nextCid, now, deploys, dep, inv,
                   sweepPc, sweepNow, sweepList>>

RegistryNext ==
    \/ Tick
    \/ \E a \in RegistryIds, w \in WarmTimeouts : CallRegister(a, w)
    \/ \E a \in RegistryIds : CallTouch(a)
    \/ \E a \in RegistryIds : CallUpdateStatus(a, "running", NoError)
    \/ \E a \in RegistryIds : CallUpdateStatus(a, "error", "failed")
    \/ \E a \in RegistryIds : CallUpdateContainer(a, 1)
    \/ \E a \in RegistryIds : CallUnregister(a)
    \/ SweepWake
    \/ SweepDecide
    \/ SweepCommit

RegistrySpec == RegistryInit /\ [][RegistryNext]_vars

(* ------------------- the sweep task and its shutdown ------------------- *)
\* The registry holding agents that run, with the sweep task, a container
\* stop that can fail, and stop_cleanup_loop.
RegistryCid(agent_id) == IF agent_id = "a1" THEN 1 ELSE 2

\* register(AgentState(status="running", container_id=...)): an agent that
\* was deployed; started tells whether the runtime still has the container
CallRegisterRunning(agent_id, warm_timeout, started) ==
    /\ registry' = Register(registry, agent_id,
                            [AgentState("running", now, warm_timeout)
                                EXCEPT !.container_id = RegistryCid(agent_id)])
    /\ order' = RegisterOrder(order, registry, agent_id)
    /\ containers' = IF started
                     THEN RunContainer(containers, agent_id, RegistryCid(agent_id))
                     ELSE RemoveExisting(containers, agent_id)
    /\ event' = Event("register", agent_id, "ok")
    /\ UNCHANGED <<runningSince, lock, at, call, ret, touched, images, nextCid, now, deploys, dep, inv,
                   sweepPc, sweepNow, sweepList>>

\* a faulty commit: the APIError of stop_container is not caught, the pass is
\* abandoned and the task of the loop ends
SweepCommitStopRaises ==
    /\ sweepPc = "commit"
    /\ LET a == Head(sweepList).agent_id
           w == Head(sweepList).witness
       IN /\ Registered(a)
          /\ StillIdle(registry[a], w)
          /\ registry[a].container_id # NoCid
          /\ registry' = Unregister(registry, a)
          /\ order' = UnregisterOrder(order, a)
          /\ event' = Event("sweep", a, "stop_failed")
    /\ sweepList' = <<>>
    /\ sweepPc' = "crashed"
    /\ runningSince' = Since(registry', runningSince, now)
    /\ UNCHANGED <<lock, at, call, ret, touched, containers, images, nextCid, now, deploys,
                   dep, inv, sweepNow>>

\* _stop_agent_if_still_idle when docker.stop_container raises APIError: the
\* entry is popped, the error is logged, the container stays
SweepCommitStopFails ==
    /\ sweepPc = "commit"
    /\ LET a == Head(sweepList).agent_id
           w == Head(sweepList).witness
       IN /\ Registered(a)
          /\ StillIdle(registry[a], w)
          /\ registry[a].container_id # NoCid
          /\ registry' = Unregister(registry, a)
          /\ order' = UnregisterOrder(order, a)
          /\ event' = Event("sweep", a, "stop_failed")
    /\ sweepList' = Tail(sweepList)
    /\ sweepPc' = IF Tail(sweepList) = <<>> THEN "sleep" ELSE "commit"
    /\ runningSince' = Since(registry', runningSince, now)
    /\ UNCHANGED <<lock, at, call, ret, touched, containers, images, nextCid, now, deploys,
                   dep, inv, sweepNow>>

\* a faulty stop_cleanup_loop: the task is awaited but never cancelled
StopCleanupLoopNoCancel ==
    /\ sweepPc # "cancelled"
    /\ event' = Event("stop_cleanup_loop", NoAgent, "ok")
    /\ UNCHANGED <<runningSince, lock, at, call, ret, touched, registry, order, containers, images, nextCid,
                   now, deploys, dep, inv, sweepPc, sweepNow, sweepList>>

\* stop_cleanup_loop: cancel() makes the await the task is suspended at raise
\* CancelledError, whatever the task was waiting for; the task ends there
StopCleanupLoop ==
    /\ sweepPc # "cancelled"
    /\ sweepPc' = "cancelled"
    /\ sweepNow' = NoTime
    /\ sweepList' = <<>>
    /\ event' = Event("stop_cleanup_loop", NoAgent, "ok")
    /\ UNCHANGED <<runningSince, lock, at, call, ret, touched, registry, order, containers, images, nextCid,
                   now, deploys, dep, inv>>

SweepNext ==
    \/ Tick
    \/ \E a \in RegistryIds, w \in WarmTimeouts, started \in BOOLEAN :
          CallRegisterRunning(a, w, started)
    \/ \E a \in RegistryIds : CallTouch(a)
    \/ SweepWake
    \/ SweepDecide
    \/ SweepCommit
    \/ SweepCommitStopFails
    \/ StopCleanupLoop

SweepSpec == RegistryInit /\ [][SweepNext]_vars

(* ------------- the registry lock, statement by statement --------------- *)
\* Each task as the statements it executes: what matters of a statement is
\* whether it enters or leaves the section of AgentRegistry._lock, works on
\* the registry, calls the driver (DockerManager) or calls the proxy.  The
\* branches a statement can take are its successors.
Stmt(kind, next) == [kind |-> kind, next |-> next]

\* the statement that calls site; the first and the last statement of the
\* async with self._lock of registry method site
AtCall(site) == <<site, "call">>
AtAcquire(site) == <<site, "acquire">>
AtIdle == AtCall("idle")

\* await registry.<site>(...): async with self._lock: <body>, then on to one
\* of next
Locked(site, next) ==
    (AtAcquire(site) :> Stmt("acquire", {<<site, "body">>}))
    @@ (<<site, "body">> :> Stmt("registry", {<<site, "release">>}))
    @@ (<<site, "release">> :> Stmt("release", next))

\* a statement outside the registry
Plain(site, kind, next) == AtCall(site) :> Stmt(kind, next)

\* server.deploy from registry.register on
DeployProgram ==
    Plain("idle", "idle", {AtAcquire("register")})
    @@ Locked("register", {AtCall("build_image")})
    @@ Plain("build_image", "driver",
             {AtCall("start_container"), AtAcquire("update_status_build_error")})
    @@ Locked("update_status_build_error", {AtIdle})
    @@ Plain("start_container", "driver",
             {AtAcquire("update_container"), AtAcquire("update_status_start_error")})
    @@ Locked("update_container", {AtCall("wait_for_ready")})
    @@ Locked("update_status_start_error", {AtCall("cleanup_image")})
    @@ Plain("cleanup_image", "driver", {AtIdle})
    @@ Plain("wait_for_ready", "proxy",
             {AtAcquire("update_status_running"), AtAcquire("update_status_not_ready")})
    @@ Locked("update_status_not_ready", {AtCall("stop_container")})
    @@ Plain("stop_container", "driver", {AtIdle})
    @@ Locked("update_status_running", {AtIdle})

\* server.invoke
InvokeProgram ==
    Plain("idle", "idle", {AtAcquire("get")})
    @@ Locked("get", {AtIdle, AtAcquire("touch")})
    @@ Locked("touch", {AtCall("invoke")})
    @@ Plain("invoke", "proxy", {AtIdle})

\* server.stop
StopProgram ==
    Plain("idle", "idle", {AtAcquire("unregister")})
    @@ Locked("unregister", {AtIdle, AtCall("stop_container"), AtCall("cleanup_image")})
    @@ Plain("stop_container", "driver", {AtCall("cleanup_image")})
    @@ Plain("cleanup_image", "driver", {AtIdle})

\* a faulty cleanup loop: the container is stopped before the section of
\* _stop_agent_if_still_idle is left
SweepProgramStopsInside ==
    Plain("sleep", "sleep", {AtAcquire("_cleanup_idle_agents")})
    @@ Locked("_cleanup_idle_agents",
              {AtCall("sleep"), AtAcquire("_stop_agent_if_still_idle")})
    @@ (AtAcquire("_stop_agent_if_still_idle")
           :> Stmt("acquire", {<<"_stop_agent_if_still_idle", "body">>}))
    @@ (<<"_stop_agent_if_still_idle", "body">>
           :> Stmt("registry", {<<"_stop_agent_if_still_idle", "release">>,
                                AtCall("stop_container")}))
    @@ Plain("stop_container", "driver", {<<"_stop_agent_if_still_idle", "release">>})
    @@ (<<"_stop_agent_if_still_idle", "release">>
           :> Stmt("release", {AtAcquire("_stop_agent_if_still_idle"), AtCall("sleep")}))

\* _cleanup_loop, _cleanup_idle_agents and _stop_agent_if_still_idle
SweepProgram ==
    Plain("sleep", "sleep", {AtAcquire("_cleanup_idle_agents")})
    @@ Locked("_cleanup_idle_agents",
              {AtCall("sleep"), AtAcquire("_stop_agent_if_still_idle")})
    @@ Locked("_stop_agent_if_still_idle",
              {AtCall("stop_container"), AtAcquire("_stop_agent_if_still_idle"),
               AtCall("sleep")})
    @@ Plain("stop_container", "driver",
             {AtAcquire("_stop_agent_if_still_idle"), AtCall("sleep")})

Program(t) ==
    CASE t = "deploy" -> DeployProgram
      [] t = "invoke" -> InvokeProgram
      [] t = "stop" -> StopProgram
      [] t = "sweep" -> SweepProgram

\* the statement task t is at
Statement(t) == Program(t)[at[t]]

\* the statement a task has just executed
Made(site, kind, t) == [fn |-> site, kind |-> kind, task |-> t]

\* task t executes the statement it is at, which is of the given kind, and
\* leaves the lock with holder.  Nothing in a section of the lock awaits, so
\* while a task is inside no other task runs.
Execute(t, kind, holder) ==
    /\ Statement(t).kind = kind
    /\ lock \in {Free, t}
    /\ \E pc \in Statement(t).next : at' = [at EXCEPT ![t] = pc]
    /\ lock' = holder
    /\ call' = Made(at[t][1], kind, t)
    /\ UNCHANGED <<runningSince, ret, registry, order, containers, images, nextCid, now,
                   deploys, dep, inv, sweepPc, sweepNow, sweepList, event, touched>>

\* a request reaches a handler
Arrive(t) == Execute(t, "idle", lock)

\* await asyncio.sleep(cleanup_interval) returns
Sleep(t) == Execute(t, "sleep", lock)

\* async with self._lock: entered once the lock is free
Acquire(t) == lock = Free /\ Execute(t, "acquire", t)

\* the body of the section
RegistryAccess(t) == Execute(t, "registry", lock)

\* the section is left
Release(t) == Execute(t, "release", Free)

\* docker.build_image, start_container, stop_container, cleanup_image
DriverCall(t) == Execute(t, "driver", lock)

\* proxy.wait_for_ready, proxy.invoke
ProxyCall(t) == Execute(t, "proxy", lock)

LockNext ==
    \E t \in Tasks :
        \/ Arrive(t)
        \/ Sleep(t)
        \/ Acquire(t)
        \/ RegistryAccess(t)
        \/ Release(t)
        \/ DriverCall(t)
        \/ ProxyCall(t)

LockSpec == Init /\ [][LockNext]_vars

(* -------------------- functions called on their own -------------------- *)
\* The pure helpers of the deploy and invoke paths, each applied once to an
\* input drawn from a bounded set: call holds the input, ret the outcome.
Ret(kind, value, detail) == [kind |-> kind, value |-> value, detail |-> detail]
Pending == Ret("pending", "", 0)
Return(value, detail) == Ret("return", value, detail)
Raise(exception, detail) == Ret("raise", exception, detail)

Call(fn, arg) == [fn |-> fn, arg |-> arg]

(* _validate_agent_id *)
\* characters of the enumerated ids (strings are sequences of characters)
IdChars == {"a", "Z", "7", "_", "-", "/", ".", " ", "\n"}
\* the character class [a-zA-Z0-9_-], as far as IdChars goes
AgentIdPatternClass == {"a", "Z", "7", "_", "-"}
\* `if len(agent_id) > 128`
MaxAgentIdLength == 128
\* length of the ids enumerated in full
MaxIdChars == 2

\* ids of 127, 128 and 129 characters, and one of 128 that ends in a newline
LongAgentIds ==
    {[k \in 1..n |-> "a"] : n \in (MaxAgentIdLength - 1)..(MaxAgentIdLength + 1)}
    \cup {[k \in 1..MaxAgentIdLength |-> IF k = MaxAgentIdLength THEN "\n" ELSE "a"]}

AgentIdStrings == UNION {[1..n -> IdChars] : n \in 0..MaxIdChars} \cup LongAgentIds

\* _AGENT_ID_PATTERN.match(agent_id) with ^[a-zA-Z0-9_-]+$ : one or more
\* characters of the class from the start, then `$`, which matches at the end
\* of the string and also just before a newline that ends the string
AgentIdPatternMatches(s) ==
    \E k \in 1..Len(s) :
        /\ \A j \in 1..k : s[j] \in AgentIdPatternClass
        /\ \/ k = Len(s)
           \/ k = Len(s) - 1 /\ s[Len(s)] = "\n"

ValidateAgentId(agent_id) ==
    IF agent_id = <<>> THEN Raise("ConfigError", "agent_id cannot be empty")
    ELSE IF Len(agent_id) > MaxAgentIdLength THEN Raise("ConfigError", "agent_id too long")
    ELSE IF ~AgentIdPatternMatches(agent_id)
    THEN Raise("ConfigError", "agent_id must contain only alphanumeric characters")
    ELSE Return("None", "")

CallValidateAgentId ==
    /\ call.fn = "_validate_agent_id"
    /\ ret.kind = "pending"
    /\ ret' = ValidateAgentId(call.arg)
    /\ UNCHANGED <<runningSince, lock, at, call, registry, order, containers, images, nextCid, now, deploys,
                   dep, inv, sweepPc, sweepNow, sweepList, event, touched>>

(* EntrypointDetector.detect *)
\* what detect sees of the entrypoint: whether the file exists, whether
\* ast.parse accepts it, and which cues the source holds
Sources ==
    [exists : BOOLEAN, parses : BOOLEAN, http_pattern : BOOLEAN,
     app_assign : BOOLEAN, agent_class : BOOLEAN, handler_function : BOOLEAN]

\* _has_http_server: a textual pattern in the source, or `app = FastAPI(...)`
\* found in the tree
HasHttpServer(src) == src.http_pattern \/ src.app_assign

\* _has_agent_class
HasAgentClass(src) == src.agent_class

\* _has_handler_function
HasHandlerFunction(src) == src.handler_function

\* a faulty detect: the agent class is looked for before the HTTP server
DetectAgentFirst(src) ==
    IF ~src.exists THEN Return("handler", "warning")
    ELSE IF ~src.parses THEN Return("handler", "warning")
    ELSE IF HasAgentClass(src) THEN Return("agent", "")
    ELSE IF HasHttpServer(src) THEN Return("http", "")
    ELSE Return("handler", "")

Detect(src) ==
    IF ~src.exists THEN Return("handler", "warning")
    ELSE IF ~src.parses THEN Return("handler", "warning")
    ELSE IF HasHttpServer(src) THEN Return("http", "")
    ELSE IF HasAgentClass(src) THEN Return("agent", "")
    ELSE IF HasHandlerFunction(src) THEN Return("handler", "")
    ELSE Return("handler", "")

CallDetect ==
    /\ call.fn = "detect"
    /\ ret.kind = "pending"
    /\ ret' = Detect(call.arg)
    /\ UNCHANGED <<runningSince, lock, at, call, registry, order, containers, images, nextCid, now, deploys,
                   dep, inv, sweepPc, sweepNow, sweepList, event, touched>>

(* EntrypointDetector._has_agent_class on the tree of a source *)
\* names are sequences of characters
ClassNames == {<<"A","g","e","n","t">>, <<"M","y","A","g","e","n","t">>,
               <<"A","g","e","n","t","s">>, <<"a","g","e","n","t">>, <<"B","o","t">>}

\* the statements of a class body: ast node type and name
BodyItems ==
    [node : {"FunctionDef", "AsyncFunctionDef", "Assign"},
     name : {"run", "invoke", "__call__", "setup"}]

ClassBodies == UNION {[1..n -> BodyItems] : n \in 0..MaxClassBody}

\* sources without HTTP cues that hold one class and perhaps a module-level
\* handler function
ClassSources ==
    [class_name : ClassNames, body : ClassBodies, handler_function : BOOLEAN]

\* sub in s  (Python's substring test)
Contains(s, sub) ==
    \E i \in 1..(Len(s) - Len(sub) + 1) : SubSeq(s, i, i + Len(sub) - 1) = sub

\* _has_agent_class for the one ClassDef of the tree
HasAgentClassDef(src) ==
    /\ Contains(src.class_name, <<"A","g","e","n","t">>)
    /\ \E k \in 1..Len(src.body) :
          /\ src.body[k].node = "FunctionDef"
          /\ src.body[k].name \in {"run", "invoke", "__call__"}

\* what detect finds in such a source: it exists, parses, has no HTTP cue
Cues(src) ==
    [exists |-> TRUE, parses |-> TRUE, http_pattern |-> FALSE, app_assign |-> FALSE,
     agent_class |-> HasAgentClassDef(src), handler_function |-> src.handler_function]

CallDetectClass ==
    /\ call.fn = "detect_class"
    /\ ret.kind = "pending"
    /\ ret' = Detect(Cues(call.arg))
    /\ UNCHANGED <<runningSince, lock, at, call, registry, order, containers, images, nextCid, now, deploys,
                   dep, inv, sweepPc, sweepNow, sweepList, event, touched>>

(* AgentRegistry.get and list_agents: what the caller is handed *)
\* _agents maps an id to an AgentState object; objects live in a heap and are
\* named by references.  None is no reference.
None == 0

\* get: self._agents.get(agent_id), the stored object itself
Get(agents, agent_id) ==
    IF agent_id \in DOMAIN agents THEN agents[agent_id] ELSE None

\* list_agents: list(self._agents.values()), a new list of the stored objects
ListAgents(agents, ord) == [k \in 1..Len(ord) |-> agents[ord[k]]]

\* what is done after the call returned: a registry method on the same id, or
\* the caller assigning to a field of what it was handed
AfterGet == {"touch", "update_status", "update_container", "assign"}

GetInputs ==
    [agent : {AgentState("building", 0, 1),
              [AgentState("running", 0, 1) EXCEPT !.container_id = 1,
                                                   !.container_name = ContainerName("a1")]},
     via : {"get", "list_agents"},
     then : AfterGet]

\* register the agent under a1, obtain it through get or list_agents, do
\* in.then; the result shows the state seen through the value handed out
\* (held) and the state of the entry in the registry
GetThen(in) ==
    LET agents == [x \in {"a1"} |-> 1]
        heap == [r \in {1} |-> in.agent]
        held == IF in.via = "get" THEN Get(agents, "a1")
                ELSE ListAgents(agents, <<"a1">>)[1]
        heap2 == CASE in.then = "touch" -> Touch(heap, agents["a1"], 1)
                   [] in.then = "update_status" ->
                         UpdateStatus(heap, agents["a1"], "error", "failed")
                   [] in.then = "update_container" ->
                         UpdateContainer(heap, agents["a1"], 2, ContainerName("a1"))
                   [] in.then = "assign" -> [heap EXCEPT ![held].status = "stopped"]
    IN Return([held |-> heap2[held], entry |-> heap2[agents["a1"]]], "")

CallGet ==
    /\ call.fn = "get"
    /\ ret.kind = "pending"
    /\ ret' = GetThen(call.arg)
    /\ UNCHANGED <<runningSince, lock, at, call, registry, order, containers, images, nextCid, now, deploys,
                   dep, inv, sweepPc, sweepNow, sweepList, event, touched>>

(* AgentProxy.invoke *)
\* the classes of httpx exceptions, each with the classes it derives from
HttpxBases ==
    [ConnectTimeout |-> {"TimeoutException", "TransportError", "RequestError", "HTTPError"},
     ReadTimeout |-> {"TimeoutException", "TransportError", "RequestError", "HTTPError"},
     ConnectError |-> {"NetworkError", "TransportError", "RequestError", "HTTPError"},
     ReadError |-> {"NetworkError", "TransportError", "RequestError", "HTTPError"},
     RemoteProtocolError |-> {"ProtocolError", "TransportError", "RequestError", "HTTPError"},
     TooManyRedirects |-> {"RequestError", "HTTPError"},
     HTTPStatusError |-> {"HTTPError"}]

IsInstance(exception, class) == exception = class \/ class \in HttpxBases[exception]

\* exceptions the POST itself raises
PostExceptions ==
    {"ConnectTimeout", "ReadTimeout", "ConnectError", "ReadError",
     "RemoteProtocolError", "TooManyRedirects"}

\* replies of the replica: status codes
ReplyStatuses == {200, 201, 400, 404, 500, 503}

\* what the POST to the replica ends in
PostOutcomes ==
    [kind : {"raises"}, exception : PostExceptions, status : {0}]
    \cup [kind : {"reply"}, exception : {"none"}, status : ReplyStatuses]

ProxyInvokeInputs == [started : BOOLEAN, post : PostOutcomes]

\* response.raise_for_status(): HTTPStatusError unless the status is 2xx
IsSuccess(status) == status >= 200 /\ status <= 299

\* what the try block of invoke raises ("none": it returns response.json())
TryBlockRaises(post) ==
    IF post.kind = "raises" THEN post.exception
    ELSE IF IsSuccess(post.status) THEN "none"
    ELSE "HTTPStatusError"

\* a faulty invoke: the except clause for RequestError comes first
ProxyInvokeRequestErrorFirst(in) ==
    IF ~in.started THEN Raise("RuntimeError", 0)
    ELSE LET e == TryBlockRaises(in.post)
         IN IF e = "none" THEN Return("json", in.post.status)
            ELSE IF IsInstance(e, "RequestError") THEN Raise("InvokeError", 502)
            ELSE IF IsInstance(e, "TimeoutException") THEN Raise("InvokeError", 504)
            ELSE IF IsInstance(e, "HTTPStatusError") THEN Raise("InvokeError", in.post.status)
            ELSE Raise(e, 0)

\* invoke: the except clauses are tried in the order they are written
ProxyInvoke(in) ==
    IF ~in.started THEN Raise("RuntimeError", 0)
    ELSE LET e == TryBlockRaises(in.post)
         IN IF e = "none" THEN Return("json", in.post.status)
            ELSE IF IsInstance(e, "TimeoutException") THEN Raise("InvokeError", 504)
            ELSE IF IsInstance(e, "HTTPStatusError") THEN Raise("InvokeError", in.post.status)
            ELSE IF IsInstance(e, "RequestError") THEN Raise("InvokeError", 502)
            ELSE Raise(e, 0)

CallProxyInvoke ==
    /\ call.fn = "invoke"
    /\ ret.kind = "pending"
    /\ ret' = ProxyInvoke(call.arg)
    /\ UNCHANGED <<runningSince, lock, at, call, registry, order, containers, images, nextCid, now, deploys,
                   dep, inv, sweepPc, sweepNow, sweepList, event, touched>>

(* AgentProxy.wait_for_ready *)
\* what one GET /health ends in
PollAnswers == {"200", "503", "RequestError"}
\* polls of one wait
MaxPolls == 3

\* answers the replica would give to the polls of one wait, and the timeout
WaitInputs ==
    UNION {[timeout : {n}, answers : [1..n -> PollAnswers]]
           : n \in 0..MaxPolls}

\* a faulty health_check: any answer of the replica counts as healthy
HealthCheckAnyReply(answer) == answer # "RequestError"

\* health_check: True for status 200; a RequestError gives False
HealthCheck(answer) == answer = "200"

\* the loop of wait_for_ready from poll k on; detail counts the polls made
RECURSIVE WaitFrom(_, _)
WaitFrom(in, k) ==
    IF k > in.timeout THEN Return("False", in.timeout)
    ELSE IF HealthCheck(in.answers[k]) THEN Return("True", k)
    ELSE WaitFrom(in, k + 1)

WaitForReady(in) == WaitFrom(in, 1)

CallWaitForReady ==
    /\ call.fn = "wait_for_ready"
    /\ ret.kind = "pending"
    /\ ret' = WaitForReady(call.arg)
    /\ UNCHANGED <<runningSince, lock, at, call, registry, order, containers, images, nextCid, now, deploys,
                   dep, inv, sweepPc, sweepNow, sweepList, event, touched>>

(* _safe_extract_tarball *)
\* paths are sequences of components, components are sequences of characters
DotDot == <<".", ".">>
\* the workspace: <data_dir>/<agent_id>, already resolved
Workspace == << <<"d">>, <<"a", "1">> >>
\* components of member names: `..`, a name that extends the workspace's
\* directory name, and a plain name
MemberParts == {DotDot, <<"a", "1", "x">>, <<"f">>}
\* components of one member name
MaxMemberDepth == 2
\* members of one archive
MaxArchiveMembers == 2

MemberNames ==
    [absolute : BOOLEAN, parts : UNION {[1..n -> MemberParts] : n \in 1..MaxMemberDepth}]

Archives == UNION {[1..n -> MemberNames] : n \in 1..MaxArchiveMembers}

\* Path.resolve() of parts under base: `..` drops the last component (the
\* root is its own parent)
RECURSIVE ResolveFrom(_, _)
ResolveFrom(base, parts) ==
    IF parts = <<>> THEN base
    ELSE IF Head(parts) = DotDot
    THEN ResolveFrom(IF base = <<>> THEN <<>> ELSE SubSeq(base, 1, Len(base) - 1),
                     Tail(parts))
    ELSE ResolveFrom(Append(base, Head(parts)), Tail(parts))

\* (workspace / member.name).resolve(): an absolute name replaces the workspace
MemberPath(name) ==
    ResolveFrom(IF name.absolute THEN <<>> ELSE Workspace, name.parts)

\* str(path): the characters of the path
RECURSIVE PathStr(_)
PathStr(path) ==
    IF path = <<>> THEN <<>>
    ELSE <<"/">> \o Head(path) \o PathStr(Tail(path))

Str(path) == IF path = <<>> THEN <<"/">> ELSE PathStr(path)

\* s.startswith(prefix), on characters
StartsWith(str, prefix) ==
    /\ Len(prefix) <= Len(str)
    /\ SubSeq(str, 1, Len(prefix)) = prefix

\* the test of the loop over tar.getmembers()
PassesTraversalCheck(name) == StartsWith(Str(MemberPath(name)), Str(Workspace))

\* the workspace or a descendant of it, by components
IsWithin(path, root) ==
    /\ Len(root) <= Len(path)
    /\ SubSeq(path, 1, Len(root)) = root

\* tar.extractall(workspace, filter="data"), member k onwards: the filter
\* strips a leading slash, refuses a target outside the destination
\* (judged by components), and the members before it stay extracted
RECURSIVE ExtractAll(_, _, _)
ExtractAll(archive, k, written) ==
    IF k > Len(archive) THEN Return("None", written)
    ELSE LET target == ResolveFrom(Workspace, archive[k].parts)
         IN IF ~IsWithin(target, Workspace)
            THEN Raise("OutsideDestinationError", written)
            ELSE IF target = Workspace
            THEN Raise("IsADirectoryError", written)
            ELSE ExtractAll(archive, k + 1, written \cup {target})

\* detail: the paths written
SafeExtractTarball(archive) ==
    IF \E k \in 1..Len(archive) : ~PassesTraversalCheck(archive[k])
    THEN Raise("ConfigError", {})
    ELSE ExtractAll(archive, 1, {})

CallSafeExtractTarball ==
    /\ call.fn = "_safe_extract_tarball"
    /\ ret.kind = "pending"
    /\ ret' = SafeExtractTarball(call.arg)
    /\ UNCHANGED <<runningSince, lock, at, call, registry, order, containers, images, nextCid, now, deploys,
                   dep, inv, sweepPc, sweepNow, sweepList, event, touched>>

(* the specification of the functions *)
FunctionsInit ==
    /\ registry = <<>>
    /\ order = <<>>
    /\ containers = [x \in AgentIds |-> NoCid]
    /\ images = {}
    /\ nextCid = 1
    /\ now = 0
    /\ deploys = 0
    /\ dep = [d \in Deployers |-> DepIdle]
    /\ inv = [i \in Invokers |-> InvIdle]
    /\ sweepPc = "sleep"
    /\ sweepNow = NoTime
    /\ sweepList = <<>>
    /\ event = NoEvent
    /\ touched = {}
    /\ ret = Pending
    /\ lock = Free
    /\ at = AtStart
    /\ runningSince = [x \in AgentIds |-> NoTime]
    /\ \/ \E s \in AgentIdStrings : call = Call("_validate_agent_id", s)
       \/ \E src \in Sources : call = Call("detect", src)
       \/ \E src \in ClassSources : call = Call("detect_class", src)
       \/ \E in \in GetInputs : call = Call("get", in)
       \/ \E in \in ProxyInvokeInputs : call = Call("invoke", in)
       \/ \E in \in WaitInputs : call = Call("wait_for_ready", in)
       \/ \E archive \in Archives : call = Call("_safe_extract_tarball", archive)

FunctionsNext ==
    \/ CallValidateAgentId
    \/ CallDetect
    \/ CallDetectClass
    \/ CallGet
    \/ CallProxyInvoke
    \/ CallWaitForReady
    \/ CallSafeExtractTarball

FunctionsSpec == FunctionsInit /\ [][FunctionsNext]_vars

(* ------------------------------ properties ----------------------------- *)
Evicted(agent_id) == event = Event("sweep", agent_id, "evicted")

\* the forwarded request of invoke handler i is in flight
Forwarding(i) == inv[i].pc = "forwarding"

\* no deploy handler is working on agent_id
NoDeployInFlight(agent_id) == \A d \in Deployers : dep[d].agent_id # agent_id

ContainerExists(container_id) == \E x \in DOMAIN containers : containers[x] = container_id

Max(x, y) == IF x >= y THEN x ELSE y

\* running, and idle at instant t for longer than its warm_timeout
Expired(agent, t) ==
    /\ agent.status = "running"
    /\ t - Max(agent.last_invoked, agent.created_at) > agent.warm_timeout

Candidates(list) == {list[k].agent_id : k \in 1..Len(list)}

\* C1: while an invocation of an agent is in progress, no sweep step removes
\* the agent's entry and stops its container.  Stated for the part of the
\* invocation that follows the touch: the forwarded request is in flight.
C1_SweepSparesInvocationInProgress ==
    \A i \in Invokers : Forwarding(i) => ~Evicted(inv[i].agent_id)

\* C2: a commit step that finds the entry's last_invoked different from the
\* witness leaves the registry and the containers as they are.
C2_WitnessMismatchKeepsAgent ==
    [][(/\ sweepPc = "commit"
        /\ event'.op = "sweep"
        /\ Registered(Head(sweepList).agent_id)
        /\ registry[Head(sweepList).agent_id].last_invoked # Head(sweepList).witness)
       => (registry' = registry /\ containers' = containers)]_vars

C2_Witness ==
    /\ event = Event("sweep", "a1", "skipped")
    /\ Registered("a1")
    /\ containers["a1"] # NoCid

C5_CandidateIffIdle ==
    [][(sweepPc = "decide" /\ sweepPc' # "decide") =>
        \A a \in DOMAIN registry :
            /\ a \in Candidates(sweepList') <=> Expired(registry[a], sweepNow)
            /\ (/\ registry[a].last_invoked # NoTime
                /\ sweepNow - registry[a].last_invoked < registry[a].warm_timeout)
               => a \notin Candidates(sweepList')]_vars

C5_Witness ==
    /\ sweepPc = "commit"
    /\ Registered("a1")
    /\ registry["a1"].last_invoked # NoTime
    /\ "a1" \in Candidates(sweepList)

\* C6: an entry leaves the registry only in a stop request or in a commit
\* step of the sweep.
C6_RemovedOnlyByStopOrSweep ==
    [][\A a \in AgentIds :
          (a \in DOMAIN registry /\ a \notin DOMAIN registry')
          => \/ event' = Event("stop", a, "stopped")
             \/ event' = Event("sweep", a, "evicted")]_vars

C6_Witness ==
    /\ event = Event("stop", "a1", "stopped")
    /\ ~Registered("a1")
    /\ \E d \in Deployers : dep[d].pc = "poll"

\* C7: every entry whose status is running has container_name set.
C7_RunningHasContainerName ==
    \A a \in DOMAIN registry :
        registry[a].status = "running" => registry[a].container_name # NoName

\* the step is the Register of some deploy of agent_id
RegisterStep(agent_id) ==
    \E d \in Deployers :
        /\ dep[d].pc = "register"
        /\ dep[d].agent_id = agent_id
        /\ dep'[d].pc # "register"

\* C8: apart from Register, a status changes only pending -> building,
\* building -> running or to error, and the sweep evicts only running entries.
C8_StatusTransitions ==
    [][\A a \in DOMAIN registry :
          /\ (a \in DOMAIN registry' /\ ~RegisterStep(a)
              /\ registry'[a].status # registry[a].status)
             => \/ registry[a].status = "pending" /\ registry'[a].status = "building"
                \/ registry[a].status = "building" /\ registry'[a].status = "running"
                \/ registry'[a].status = "error"
          /\ event' = Event("sweep", a, "evicted")
             => registry[a].status = "running"]_vars

\* C9: when deploy returns status running, the registry holds a running entry
\* for the id and the runtime has the container named oken-<agent_id>.
C9_DeployRunningMeansRunning ==
    \A a \in AgentIds :
        event = Event("deploy", a, "running")
        => /\ Registered(a)
           /\ registry[a].status = "running"
           /\ containers[a] # NoCid

\* C10: when deploy fails at the build or at the start, no container named
\* oken-<agent_id> exists on return.  Stated for a deploy that returns while
\* no other deploy of the id is in flight.
C10_FailedDeployLeavesNoContainer ==
    \A a \in AgentIds :
        (/\ \/ event = Event("deploy", a, "BuildError")
            \/ event = Event("deploy", a, "ContainerError")
         /\ NoDeployInFlight(a))
        => containers[a] = NoCid

\* a container with this id exists in the runtime cs
ContainerIn(cs, container_id) == \E x \in DOMAIN cs : cs[x] = container_id

C12_NotReadyCompensation ==
    [][\A d \in Deployers :
          (dep[d].pc = "not_ready" /\ dep'[d].pc # "not_ready")
          => LET a == dep[d].agent_id
             IN /\ DOMAIN registry' = DOMAIN registry
                /\ a \in DOMAIN registry => registry'[a].status = "error"
                /\ ~ContainerIn(containers', dep[d].container_id)
                /\ images' = images
                /\ event' = Event("deploy", a, "error")]_vars

C12_Witness ==
    /\ event = Event("deploy", "a1", "error")
    /\ Registered("a1")
    /\ registry["a1"].status = "error"
    /\ registry["a1"].container_id # NoCid
    /\ ~ContainerExists(registry["a1"].container_id)
    /\ ImageTag("a1") \in images

\* C13: when the build fails, deploy has registered the entry, starts no
\* container, does not unregister, sets the entry's status to error with the
\* error text, and raises the build error.
C13_BuildFailureKeepsEntry ==
    [][\A d \in Deployers :
          LET a == dep[d].agent_id
          IN /\ (dep[d].pc = "register" /\ dep'[d].pc = "build_failed")
                => /\ a \in DOMAIN registry'
                   /\ containers' = containers
                   /\ nextCid' = nextCid
             /\ (dep[d].pc = "build_failed" /\ dep'[d].pc # "build_failed")
                => /\ DOMAIN registry' = DOMAIN registry
                   /\ a \in DOMAIN registry
                      => /\ registry'[a].status = "error"
                         /\ registry'[a].error = "build"
                   /\ containers' = containers
                   /\ nextCid' = nextCid
                   /\ event' = Event("deploy", a, "BuildError")]_vars

C13_Witness ==
    /\ event = Event("deploy", "a1", "BuildError")
    /\ Registered("a1")
    /\ registry["a1"].status = "error"
    /\ registry["a1"].error = "build"
    /\ registry["a1"].container_id = NoCid
    /\ nextCid = 1

\* C14: when the start fails, deploy sets the entry's status to error, removes
\* the image it built, and raises the container error.
C14_StartFailureRemovesImage ==
    [][\A d \in Deployers :
          LET a == dep[d].agent_id
          IN /\ (dep[d].pc = "register" /\ dep'[d].pc = "start_failed")
                => ImageTag(a) \in images'
             /\ (dep[d].pc = "start_failed" /\ dep'[d].pc # "start_failed")
                => /\ a \in DOMAIN registry
                      => /\ a \in DOMAIN registry'
                         /\ registry'[a].status = "error"
                   /\ ImageTag(a) \notin images'
                   /\ event' = Event("deploy", a, "ContainerError")]_vars

C14_Witness ==
    /\ event = Event("deploy", "a1", "ContainerError")
    /\ Registered("a1")
    /\ registry["a1"].status = "error"
    /\ ImageTag("a1") \notin images

C16_InvokePreconditions ==
    [][/\ \A a \in AgentIds :
            /\ event' = Event("invoke", a, "AgentNotFound")
               => a \notin DOMAIN registry /\ registry' = registry /\ inv' = inv
            /\ event' = Event("invoke", a, "AgentNotRunning")
               => /\ a \in DOMAIN registry
                  /\ \/ registry[a].status # "running"
                     \/ registry[a].container_name = NoName
                  /\ registry' = registry
                  /\ inv' = inv
       /\ \A i \in Invokers :
            /\ (inv[i].pc = "idle" /\ inv'[i].pc # "idle")
               => /\ inv'[i].pc = "touch"
                  /\ inv'[i].agent_id \in DOMAIN registry
                  /\ registry[inv'[i].agent_id].status = "running"
                  /\ registry[inv'[i].agent_id].container_name # NoName
                  /\ registry' = registry
            /\ (inv[i].pc # "forwarding" /\ inv'[i].pc = "forwarding")
               => /\ inv[i].pc = "touch"
                  /\ inv[i].agent_id \in DOMAIN registry
                     => registry'[inv[i].agent_id].last_invoked = now]_vars

C16_Witness ==
    /\ \E i \in Invokers : Forwarding(i) /\ inv[i].agent_id = "a1"
    /\ Registered("a1")
    /\ registry["a1"].last_invoked = now
    /\ now > 0

\* C17: a successful stop removes the id, only a deploy's Register brings it
\* back, and an invoke of an id that is not registered yields AgentNotFound.
C17_InvokeAfterStopNotFound ==
    [][/\ \A a \in AgentIds :
            /\ event' = Event("stop", a, "stopped")
               => a \in DOMAIN registry /\ a \notin DOMAIN registry'
            /\ (a \notin DOMAIN registry /\ a \in DOMAIN registry')
               => RegisterStep(a)
       /\ \A i \in Invokers, a \in AgentIds :
            (inv[i].pc = "idle" /\ a \notin DOMAIN registry /\ event'.op = "invoke"
             /\ event'.agent_id = a)
            => event' = Event("invoke", a, "AgentNotFound") /\ inv' = inv
       /\ \A i \in Invokers :
            (inv[i].pc = "idle" /\ inv'[i].pc # "idle")
            => inv'[i].agent_id \in DOMAIN registry]_vars

C17_Witness ==
    /\ event = Event("invoke", "a1", "AgentNotFound")
    /\ ~Registered("a1")
    /\ nextCid > 1
    /\ containers["a1"] = NoCid
    /\ ImageTag("a1") \notin images
    /\ \A d \in Deployers : dep[d].pc = "idle"

\* C18: an entry whose status is error stays registered with status error
\* until a stop or a Register of its id.
C18_ErrorEntryStays ==
    [][\A a \in DOMAIN registry :
          (/\ registry[a].status = "error"
           /\ ~RegisterStep(a)
           /\ event' # Event("stop", a, "stopped"))
          => /\ a \in DOMAIN registry'
             /\ registry'[a].status = "error"]_vars

\* the ids that list_agents shows, with repetitions
Listed(ord) == {ord[k] : k \in 1..Len(ord)}

\* C19: whatever the sequence of registry calls, every id is listed at most
\* once; a register of a present id replaces its entry and adds none, a
\* register of an absent id adds exactly one, and no other entry changes.
C19_OneEntryPerId ==
    /\ [](/\ Listed(order) = DOMAIN registry
          /\ Len(order) = Cardinality(DOMAIN registry))
    /\ [][\A a \in RegistryIds :
            event' = Event("register", a, "ok")
            => /\ DOMAIN registry' = DOMAIN registry \cup {a}
               /\ registry'[a].status = "pending"
               /\ registry'[a].created_at = now
               /\ registry'[a].last_invoked = NoTime
               /\ registry'[a].container_id = NoCid
               /\ \A b \in DOMAIN registry \ {a} : registry'[b] = registry[b]
               /\ Len(order') = Len(order) + (IF a \in DOMAIN registry THEN 0 ELSE 1)]_vars

C19_Witness ==
    /\ event = Event("register", "a1", "ok")
    /\ order = <<"a1", "a2">>
    /\ DOMAIN registry = {"a1", "a2"}
    /\ registry["a2"].status = "running"
    /\ registry["a1"].created_at > registry["a2"].created_at

\* C20: once an id's last_invoked is set, every later value the registry
\* shows for the id is greater than or equal to it.
C20_LastInvokedMonotonic ==
    [][\A a \in DOMAIN registry :
          (registry[a].last_invoked # NoTime /\ a \in DOMAIN registry')
          => registry'[a].last_invoked >= registry[a].last_invoked]_vars

\* the outcome of the call of fn is in
Done(fn) == call.fn = fn /\ ret.kind # "pending"

\* C26: _validate_agent_id accepts a string exactly when it has 1 to 128
\* characters, each a letter, a digit, '_' or '-'; every other string raises
\* ConfigError.
C26_AgentIdGrammar ==
    Done("_validate_agent_id")
    => LET s == call.arg
           valid == /\ Len(s) >= 1
                    /\ Len(s) <= 128
                    /\ \A k \in 1..Len(s) : s[k] \in {"a", "Z", "7", "_", "-"}
       IN IF valid THEN ret.kind = "return"
          ELSE ret.kind = "raise" /\ ret.value = "ConfigError"

\* C22: invoke maps a request timeout to InvokeError 504, a non-2xx reply to
\* InvokeError with the reply's status, any other transport error to
\* InvokeError 502; a proxy that was not started raises RuntimeError.
C22_InvokeErrorMapping ==
    Done("invoke")
    => LET in == call.arg
       IN IF ~in.started THEN ret = Raise("RuntimeError", 0)
          ELSE IF in.post.kind = "reply"
          THEN IF in.post.status \in 200..299 THEN ret.kind = "return"
               ELSE ret = Raise("InvokeError", in.post.status)
          ELSE IF in.post.exception \in {"ConnectTimeout", "ReadTimeout"}
          THEN ret = Raise("InvokeError", 504)
          ELSE ret = Raise("InvokeError", 502)

C22_Witness ==
    /\ Done("invoke")
    /\ call.arg.started
    /\ call.arg.post.exception = "ReadTimeout"
    /\ ret = Raise("InvokeError", 504)

\* the polls of a wait that are answered with 200
ReadyPolls(in) == {k \in 1..in.timeout : in.answers[k] = "200"}

\* C23: wait_for_ready makes at most n polls; it returns True at the first
\* poll answered with 200 and polls no further, False after n polls without
\* a 200; a poll that ends in a transport error is one failed poll.
C23_WaitForReadyBounded ==
    Done("wait_for_ready")
    => LET in == call.arg
       IN /\ ret.kind = "return"
          /\ ret.detail <= in.timeout
          /\ IF ReadyPolls(in) = {}
             THEN ret.value = "False" /\ ret.detail = in.timeout
             ELSE /\ ret.value = "True"
                  /\ ret.detail \in ReadyPolls(in)
                  /\ \A k \in ReadyPolls(in) : ret.detail <= k

C23_Witness ==
    /\ Done("wait_for_ready")
    /\ call.arg.timeout = 3
    /\ call.arg.answers = <<"RequestError", "200", "503">>
    /\ ret = Return("True", 2)

\* C24: for a source that parses, detect returns http if an HTTP cue is
\* present, otherwise agent if an agent class is present, otherwise handler;
\* a source that does not parse gives handler, without an error.
C24_DetectionPriority ==
    (Done("detect") /\ call.arg.exists)
    => LET src == call.arg
       IN /\ ret.kind = "return"
          /\ ret.value = IF ~src.parses THEN "handler"
                         ELSE IF src.http_pattern \/ src.app_assign THEN "http"
                         ELSE IF src.agent_class THEN "agent"
                         ELSE "handler"

C24_Witness ==
    /\ Done("detect")
    /\ call.arg = [exists |-> TRUE, parses |-> TRUE, http_pattern |-> FALSE,
                   app_assign |-> TRUE, agent_class |-> TRUE, handler_function |-> TRUE]
    /\ ret.value = "http"

\* C25: when the entrypoint file does not exist, detect raises ConfigError.
C25_MissingEntrypointRaises ==
    (Done("detect") /\ ~call.arg.exists)
    => ret.kind = "raise" /\ ret.value = "ConfigError"

\* C27: an archive with a member whose resolved path is neither the workspace
\* nor a descendant of it (by components) raises ConfigError, and no path
\* outside the workspace is written.
C27_EscapingMemberRejected ==
    (/\ Done("_safe_extract_tarball")
     /\ \E k \in 1..Len(call.arg) : ~IsWithin(MemberPath(call.arg[k]), Workspace))
    => /\ ret.kind = "raise"
       /\ ret.value = "ConfigError"
       /\ \A path \in ret.detail : IsWithin(path, Workspace)

\* C21: stop_cleanup_loop ends the sweep task: from then on the task takes
\* no step and evicts nothing; and an eviction, once its entry is removed,
\* stops the entry's container in the same step.
C21_StopSweepEndsTask ==
    /\ [][/\ event' = Event("stop_cleanup_loop", NoAgent, "ok") => sweepPc' = "cancelled"
          /\ sweepPc = "cancelled"
             => /\ sweepPc' = "cancelled"
                /\ sweepList' = sweepList
                /\ event'.op # "sweep"
                /\ DOMAIN registry \subseteq DOMAIN registry']_vars
    /\ [](\A a \in RegistryIds :
            Evicted(a) => a \notin DOMAIN registry /\ ~ContainerExists(RegistryCid(a)))

C21_Witness ==
    /\ event = Event("stop_cleanup_loop", NoAgent, "ok")
    /\ sweepPc = "cancelled"
    /\ ~Registered("a1")
    /\ ~ContainerExists(RegistryCid("a1"))
    /\ Registered("a2")
    /\ Expired(registry["a2"], now)
    /\ ContainerExists(RegistryCid("a2"))

\* C30: when the stop of an evicted candidate's container fails, the entry
\* stays removed, the pass goes on with the next candidate and the sweep task
\* stays alive.
C30_StopFailureSwallowed ==
    [][\A a \in RegistryIds :
          event' = Event("sweep", a, "stop_failed")
          => /\ a \in DOMAIN registry
             /\ a \notin DOMAIN registry'
             /\ sweepList' = Tail(sweepList)
             /\ sweepPc' = IF Tail(sweepList) = <<>> THEN "sleep" ELSE "commit"]_vars

C30_Witness ==
    /\ Evicted("a2")
    /\ ~Registered("a1")
    /\ ContainerExists(RegistryCid("a1"))
    /\ ~Registered("a2")
    /\ ~ContainerExists(RegistryCid("a2"))
    /\ sweepPc = "sleep"

\* positions of deploy at which the next step is an update_status or an
\* update_container call
UpdatePcs == {"build_failed", "start_failed", "update_container", "mark_running",
              "not_ready"}

\* C28: every update_status and update_container call for an id is made while
\* the entry is registered: after its Register, before its removal.
C28_UpdateWhileRegistered ==
    [][\A d \in Deployers :
          (dep[d].pc \in UpdatePcs /\ dep'[d].pc # dep[d].pc)
          => dep[d].agent_id \in DOMAIN registry]_vars

\* C29: no call of the driver and no call of the proxy is made by a task
\* that is inside the section of the registry lock: when such a call is the
\* next statement of a task, and when it has just been made, the lock is free.
C29_CallsOutsideLock ==
    /\ \A t \in Tasks : Statement(t).kind \in {"driver", "proxy"} => lock # t
    /\ call.fn # "none" /\ call.kind \in {"driver", "proxy"} => lock = Free

C29_Witness ==
    /\ call = Made("stop_container", "driver", "sweep")
    /\ lock = Free
    /\ at["invoke"] = AtAcquire("touch")
    /\ at["deploy"] = AtCall("wait_for_ready")

\* C34: a source without HTTP cues whose class has "Agent" in its name and
\* defines run, invoke or __call__, as a plain or as an async function, is
\* classified as agent.
C34_AsyncAgentClassDetected ==
    (/\ Done("detect_class")
     /\ Contains(call.arg.class_name, <<"A","g","e","n","t">>)
     /\ \E k \in 1..Len(call.arg.body) :
           /\ call.arg.body[k].node \in {"FunctionDef", "AsyncFunctionDef"}
           /\ call.arg.body[k].name \in {"run", "invoke", "__call__"})
    => ret = Return("agent", "")

\* C31: what get returns, and each element of what list_agents returns, is a
\* snapshot: a later touch, update_status or update_container does not show
\* through it, and assigning to it does not change the entry of the registry.
C31_GetReturnsSnapshot ==
    Done("get")
    => /\ call.arg.then \in {"touch", "update_status", "update_container"}
          => ret.value.held = call.arg.agent
       /\ call.arg.then = "assign" => ret.value.entry = call.arg.agent

\* the registry after a step differs from the one before at most in the
\* given fields of the entry of agent_id, and not at all when the id is absent
ChangesOnly(agent_id, fields) ==
    IF agent_id \notin DOMAIN registry
    THEN registry' = registry
    ELSE /\ DOMAIN registry' = DOMAIN registry
         /\ \A b \in DOMAIN registry \ {agent_id} : registry'[b] = registry[b]
         /\ \A f \in DOMAIN registry[agent_id] \ fields :
               registry'[agent_id][f] = registry[agent_id][f]

\* C32: touch, update_status and update_container on an absent id leave the
\* registry as it is; on a registered id they change only last_invoked, only
\* status and error, only container_id and container_name of that entry.
C32_UpdatesChangeOnlyTheirFields ==
    [][registry' # registry
       => \A a \in RegistryIds :
             /\ CallTouch(a) => ChangesOnly(a, {"last_invoked"})
             /\ (CallUpdateStatus(a, "running", NoError)
                   \/ CallUpdateStatus(a, "error", "failed"))
                => ChangesOnly(a, {"status", "error"})
             /\ CallUpdateContainer(a, 1)
                => ChangesOnly(a, {"container_id", "container_name"})]_vars

C32_Witness ==
    /\ Registered("a1")
    /\ Registered("a2")
    /\ registry["a1"].last_invoked = 1
    /\ registry["a1"].status = "error"
    /\ registry["a1"].error = "failed"
    /\ registry["a1"].container_id = 1
    /\ registry["a2"] = AgentState("pending", 0, 1)

C38_RunningHasNoError ==
    \A a \in DOMAIN registry :
        registry[a].status = "running" => registry[a].error = NoError

\* C37: a stop request or a sweep commit stops a container only in the step
\* in which it removes the entry that records it, so once per entry; a stop
\* request that finds the id absent fails with AgentNotFound and a sweep
\* commit that finds it absent skips, both without touching a container.
C37_OneStopPerEntry ==
    [][\A a \in AgentIds :
          /\ (event' = Event("stop", a, "stopped") \/ Evicted(a)')
             => /\ a \in DOMAIN registry
                /\ a \notin DOMAIN registry'
                /\ containers' = IF registry[a].container_id # NoCid
                                 THEN StopContainer(containers, registry[a].container_id)
                                 ELSE containers
          /\ (event'.agent_id = a /\ event'.op \in {"stop", "sweep"}
                 /\ a \notin DOMAIN registry)
             => /\ event' \in {Event("stop", a, "AgentNotFound"), Event("sweep", a, "gone")}
                /\ containers' = containers
                /\ registry' = registry]_vars

C37_Witness ==
    /\ event = Event("sweep", "a1", "gone")
    /\ ~Registered("a1")
    /\ ~ContainerExists(1)
    /\ nextCid = 2

\* C39: the sweep evicts an entry only after it has been in status running,
\* and not invoked, for more than its warm_timeout: the time before the entry
\* was marked running does not count.
C39_IdleTimeCountsFromRunning ==
    [][\A a \in AgentIds :
          Evicted(a)'
          => /\ a \in DOMAIN registry
             /\ runningSince[a] # NoTime
             /\ now - Max(runningSince[a], registry[a].last_invoked)
                   > registry[a].warm_timeout]_vars

\* no deploy handler and no sweep pass is under way (a stop request is one
\* step)
Quiescent ==
    /\ \A d \in Deployers : dep[d].pc = "idle"
    /\ sweepPc = "sleep"

TypeOK ==
    /\ DOMAIN registry \subseteq AgentIds
    /\ now \in 0..MaxTime
    /\ sweepPc \in {"sleep", "decide", "commit"}
====
